---- MODULE Spec2Model ----
(***************************************************************************)
(* A model of the Trie class of lab.py, of the queries built on it         *)
(* (autocomplete, autocorrect, word_filter) and of its two builders        *)
(* (make_word_trie, make_phrase_trie).                                     *)
(*                                                                         *)
(* Encoding of Python values:                                              *)
(*   - a key is a record [kind, atoms]: kind is the Python type of the key  *)
(*     ("str", "tuple", or "list" for an unsupported type) and atoms the    *)
(*     sequence `for c in key` yields (characters, or tuple elements);      *)
(*   - an optional payload is None == <<>> or <<v>> for the payload v;      *)
(*   - a key of a children dict is [wrapped, atom]: the character c itself  *)
(*     (wrapped = FALSE) or the 1-tuple (c,) (wrapped = TRUE);              *)
(*   - a dict is the sequence of its items in insertion order.              *)
(***************************************************************************)
EXTENDS Integers, Sequences, FiniteSets, TLC

\* ---------------------------------------------------------------- bounds
\* longest key or prefix passed to an operation
MaxKeyLen == 2
\* payloads are the frequencies 1..MaxVal
MaxVal == 2
\* most nodes a trie grows below its root
MaxNodes == 2
\* largest max_count passed to a query
MaxCount == 2

\* longest pattern passed to word_filter
MaxPatLen == 3
\* most sentences in a text, and most words in a sentence
MaxSentences == 2
MaxWords == 2

\* the characters of str keys and the tokens of tuple keys
KeyAtoms == {"a", "b"}

\* ------------------------------------------------------- Python values
None == <<>>
NoType == "NoneType"
Payloads == {<<v>> : v \in 1..MaxVal}
Values == Payloads \cup {None}

AtomSeqs == UNION {[1..n -> KeyAtoms] : n \in 0..MaxKeyLen}
StrKeys == {[kind |-> "str", atoms |-> s] : s \in AtomSeqs}
TupleKeys == {[kind |-> "tuple", atoms |-> s] : s \in AtomSeqs}
OtherKeys == {[kind |-> "list", atoms |-> <<"a">>]}
Keys == StrKeys \cup TupleKeys
AnyKeys == Keys \cup OtherKeys
OtherKind(K) == IF K = "str" THEN "tuple" ELSE "str"

\* ------------------------------------------------------------ class Trie
\* Trie.__init__(trie_type, value)
NewTrie(trie_type) == [value |-> None, children |-> <<>>, type |-> trie_type]

\* `if self.type is tuple: c = (c,)`
ChildKey(type, c) == [wrapped |-> (type = "tuple"), atom |-> c]

\* position of key c in the dict `children`, 0 when `c not in children`
IndexOf(children, c) ==
  IF \E i \in 1..Len(children) : children[i].key = c
  THEN CHOOSE i \in 1..Len(children) : children[i].key = c
  ELSE 0

\* the type checks at the head of __setitem__: TRUE when it raises TypeError
SetItemRaises(t, key) ==
  IF Len(t.children) = 0
  THEN ~(key.kind = "str" \/ key.kind = "tuple")
  ELSE t.type # NoType /\ key.kind # t.type

\* self.type after the head of __setitem__ (when it does not raise)
SetItemType(t, key) == IF Len(t.children) = 0 THEN key.kind ELSE t.type

\* __setitem__ that ends on a fresh node (an assignment in place of setdefault)
RECURSIVE SetPathFreshNode(_, _, _, _)
SetPathFreshNode(node, cs, value, type) ==
  IF cs = <<>>
  THEN [NewTrie(type) EXCEPT !.value = value]
  ELSE LET c == ChildKey(type, Head(cs))
           i == IndexOf(node.children, c)
           kids == IF i = 0
                   THEN Append(node.children, [key |-> c, trie |-> NewTrie(type)])
                   ELSE node.children
           j == IF i = 0 THEN Len(kids) ELSE i
       IN [node EXCEPT !.children =
             [kids EXCEPT ![j].trie = SetPathFreshNode(kids[j].trie, Tail(cs), value, type)]]

\* __setitem__ that puts a new child before the children its node has
RECURSIVE SetPathPrepends(_, _, _, _)
SetPathPrepends(node, cs, value, type) ==
  IF cs = <<>>
  THEN [node EXCEPT !.value = value]
  ELSE LET c == ChildKey(type, Head(cs))
           i == IndexOf(node.children, c)
           kids == IF i = 0
                   THEN <<[key |-> c, trie |-> NewTrie(type)]>> \o node.children
                   ELSE node.children
           j == IF i = 0 THEN 1 ELSE i
       IN [node EXCEPT !.children =
             [kids EXCEPT ![j].trie = SetPathPrepends(kids[j].trie, Tail(cs), value, type)]]

\* __setitem__ that keeps a payload already assigned (a setdefault on the value)
RECURSIVE SetPathKeepsOld(_, _, _, _)
SetPathKeepsOld(node, cs, value, type) ==
  IF cs = <<>>
  THEN IF node.value = None THEN [node EXCEPT !.value = value] ELSE node
  ELSE LET c == ChildKey(type, Head(cs))
           i == IndexOf(node.children, c)
           kids == IF i = 0
                   THEN Append(node.children, [key |-> c, trie |-> NewTrie(type)])
                   ELSE node.children
           j == IF i = 0 THEN Len(kids) ELSE i
       IN [node EXCEPT !.children =
             [kids EXCEPT ![j].trie = SetPathKeepsOld(kids[j].trie, Tail(cs), value, type)]]

\* the loop of __setitem__ from `node` on, over the remaining atoms cs
RECURSIVE SetPath(_, _, _, _)
SetPath(node, cs, value, type) ==
  IF cs = <<>>
  THEN [node EXCEPT !.value = value]
  ELSE LET c == ChildKey(type, Head(cs))
           i == IndexOf(node.children, c)
           kids == IF i = 0
                   THEN Append(node.children, [key |-> c, trie |-> NewTrie(type)])
                   ELSE node.children
           j == IF i = 0 THEN Len(kids) ELSE i
       IN [node EXCEPT !.children =
             [kids EXCEPT ![j].trie = SetPath(kids[j].trie, Tail(cs), value, type)]]

\* __setitem__ that takes the type of the key before it tests it
SetItemTypeFirst(t, key, value) ==
  IF SetItemRaises(t, key)
  THEN [t EXCEPT !.type = SetItemType(t, key)]
  ELSE LET type == SetItemType(t, key)
       IN SetPath([t EXCEPT !.type = type], key.atoms, value, type)

\* Trie.__setitem__: the trie afterwards (unchanged when it raises)
SetItem(t, key, value) ==
  IF SetItemRaises(t, key)
  THEN t
  ELSE LET type == SetItemType(t, key)
       IN SetPath([t EXCEPT !.type = type], key.atoms, value, type)

\* find without the `node.value is None` test: a junction counts as found
RECURSIVE FindFromAnyNode(_, _, _)
FindFromAnyNode(node, cs, type) ==
  IF cs = <<>>
  THEN <<node>>
  ELSE LET i == IndexOf(node.children, ChildKey(type, Head(cs)))
       IN IF i = 0 THEN <<>> ELSE FindFromAnyNode(node.children[i].trie, Tail(cs), type)

\* Trie.find: <<>> for False, <<node>> for the node found
RECURSIVE FindFrom(_, _, _)
FindFrom(node, cs, type) ==
  IF cs = <<>>
  THEN IF node.value = None THEN <<>> ELSE <<node>>
  ELSE LET i == IndexOf(node.children, ChildKey(type, Head(cs)))
       IN IF i = 0 THEN <<>> ELSE FindFrom(node.children[i].trie, Tail(cs), type)

find(t, key) == FindFrom(t, key.atoms, t.type)

\* Trie.__getitem__: [exc, ret]
GetItem(t, key) ==
  IF t.type = NoType \/ t.type # key.kind
  THEN [exc |-> "TypeError", ret |-> None]
  ELSE LET node == find(t, key)
       IN IF node = <<>>
          THEN [exc |-> "KeyError", ret |-> None]
          ELSE [exc |-> "none", ret |-> node[1].value]

\* __delitem__ without its `self.__setitem__(key, None)`
DelItemNoReset(t, key) == [exc |-> GetItem(t, key).exc, trie |-> t]

\* Trie.__delitem__: [exc, trie]
DelItem(t, key) ==
  LET g == GetItem(t, key)
  IN IF g.exc # "none"
     THEN [exc |-> g.exc, trie |-> t]
     ELSE [exc |-> IF SetItemRaises(t, key) THEN "TypeError" ELSE "none",
           trie |-> SetItem(t, key, None)]

\* __contains__ that takes a node without a payload for a key
ContainsAnyNode(t, key) == FindFromAnyNode(t, key.atoms, t.type) # <<>>

\* Trie.__contains__
Contains(t, key) == find(t, key) # <<>>

\* `key + child` in gen: str + str or tuple + tuple
KeyPlus(key, child) == [key EXCEPT !.atoms = Append(@, child.atom)]

\* Trie.__iter__.gen and its loop over node.children.items()
RECURSIVE gen(_, _)
RECURSIVE genItems(_, _)
gen(key, node) ==
  (IF node.value # None THEN <<[key |-> key, value |-> node.value]>> ELSE <<>>)
    \o genItems(key, node.children)
genItems(key, items) ==
  IF items = <<>>
  THEN <<>>
  ELSE gen(KeyPlus(key, items[1].key), items[1].trie) \o genItems(key, Tail(items))

\* Trie.__iter__ as the list of the pairs it yields
Iter(t) ==
  IF t.type = NoType
  THEN <<>>
  ELSE gen([kind |-> t.type, atoms |-> <<>>], t)

\* number of nodes under the root (the model's cap on growth)
RECURSIVE NodeCount(_)
RECURSIVE NodeCountItems(_)
NodeCount(node) == NodeCountItems(node.children)
NodeCountItems(items) ==
  IF items = <<>> THEN 0
  ELSE 1 + NodeCount(items[1].trie) + NodeCountItems(Tail(items))

\* ------------------------------------------------------------ the queries
\* the frequency of a (key, value) pair: tup[1] of `key = lambda tup: tup[1]`
Freq(pair) == pair.value[1]

\* a sort that is not stable: an item goes before the items of its frequency
RECURSIVE InsertDescUnstable(_, _)
InsertDescUnstable(s, x) ==
  IF s = <<>> THEN <<x>>
  ELSE IF Freq(Head(s)) > Freq(x)
       THEN <<Head(s)>> \o InsertDescUnstable(Tail(s), x)
       ELSE <<x>> \o s

\* list.sort(key = freq, reverse = True): stable, descending
RECURSIVE InsertDesc(_, _)
InsertDesc(s, x) ==
  IF s = <<>> THEN <<x>>
  ELSE IF Freq(Head(s)) >= Freq(x)
       THEN <<Head(s)>> \o InsertDesc(Tail(s), x)
       ELSE <<x>> \o s
RECURSIVE SortDesc(_)
SortDesc(s) ==
  IF s = <<>> THEN <<>>
  ELSE InsertDesc(SortDesc(SubSeq(s, 1, Len(s) - 1)), s[Len(s)])

\* s[:n + 1]
SliceOneMore(s, n) == SubSeq(s, 1, IF n + 1 < Len(s) THEN n + 1 ELSE Len(s))

\* s[:n] for n >= 0
Slice(s, n) == SubSeq(s, 1, IF n < Len(s) THEN n ELSE Len(s))

\* the walk of find_completes_prefix down the atoms of prefix:
\* <<>> for `return []`, <<node>> for the prefix trie
RECURSIVE WalkPrefix(_, _)
WalkPrefix(node, cs) ==
  IF cs = <<>> THEN <<node>>
  ELSE LET i == IndexOf(node.children, ChildKey(node.type, Head(cs)))
       IN IF i = 0 THEN <<>> ELSE WalkPrefix(node.children[i].trie, Tail(cs))

\* `prefix + key`
PrefixPlus(prefix, key) == [prefix EXCEPT !.atoms = @ \o key.atoms]

\* find_completes_prefix: [exc, ret], ret the list of (key, freq) pairs
find_completes_prefix(t, prefix, max_count) ==
  IF prefix.kind # t.type
  THEN [exc |-> "TypeError", ret |-> <<>>]
  ELSE LET w == WalkPrefix(t, prefix.atoms)
       IN IF w = <<>>
          THEN [exc |-> "none", ret |-> <<>>]
          ELSE LET it == Iter(w[1])
                   top_occuring ==
                     SortDesc([i \in 1..Len(it) |->
                       [key |-> PrefixPlus(prefix, it[i].key), value |-> it[i].value]])
               IN [exc |-> "none",
                   ret |-> IF max_count = None THEN top_occuring
                           ELSE Slice(top_occuring, max_count[1])]

\* the keys of a list of (key, freq) pairs
Words(pairs) == [i \in 1..Len(pairs) |-> pairs[i].key]

\* autocomplete: [exc, ret], ret the list of keys
autocomplete(t, prefix, max_count) ==
  LET f == find_completes_prefix(t, prefix, max_count)
  IN [exc |-> f.exc, ret |-> Words(f.ret)]

\* 'abcdefghijklmnopqrstuvwxyz'
Alphabet ==
  {"a", "b", "c", "d", "e", "f", "g", "h", "i", "j", "k", "l", "m",
   "n", "o", "p", "q", "r", "s", "t", "u", "v", "w", "x", "y", "z"}

\* p[:i] and p[i:] with Python's 0-based i
Upto(p, i) == SubSeq(p, 1, i)
From(p, i) == SubSeq(p, i + 1, Len(p))

edit_insert(p) == {Upto(p, i) \o <<c>> \o From(p, i) : i \in 0..Len(p), c \in Alphabet}
edit_delete(p) == {Upto(p, i) \o From(p, i + 1) : i \in 0..(Len(p) - 1)}
edit_replace(p) ==
  {Upto(p, i) \o <<c>> \o From(p, i + 1) : i \in 0..(Len(p) - 1), c \in Alphabet}
edit_transpose(p) ==
  {Upto(p, i - 1) \o <<p[i + 1], p[i]>> \o From(p, i + 1) : i \in 1..(Len(p) - 1)}
possible_edits(p) ==
  edit_insert(p) \cup edit_delete(p) \cup edit_replace(p) \cup edit_transpose(p)

\* possible_edits as str keys, tabulated once per prefix
EditKeys ==
  [p \in AtomSeqs |-> {[kind |-> "str", atoms |-> e] : e \in possible_edits(p)}]

\* the candidates the loop can find in a trie: a candidate holding a letter that
\* is no atom of the model's keys fails `edit in trie` in every state
\* (EditsSkippedAbsent), and the model's loop passes over it. `@@ <<>>` makes
\* TLC tabulate the function once instead of at every application.
LiveEditKeys ==
  [p \in AtomSeqs |->
     {e \in EditKeys[p] : \A i \in 1..Len(e.atoms) : e.atoms[i] \in KeyAtoms}] @@ <<>>

\* the set a list holds
ToSet(s) == {s[i] : i \in 1..Len(s)}

\* the set valid_edits after the while loop: pairs (edit, trie[edit])
valid_edits(t, prefix, completions) ==
  LET ok == {edit \in LiveEditKeys[prefix.atoms] :
               /\ edit # prefix
               /\ Contains(t, edit)
               /\ [key |-> edit, value |-> GetItem(t, edit).ret] \notin completions}
  IN {[key |-> edit, value |-> GetItem(t, edit).ret] : edit \in ok}

\* the lists that can come out of iterating the set U: its items once each, in
\* an order fixed by the hashes of the items (strings hash per process)
Orders(U) ==
  {s \in [1..Cardinality(U) -> U] : \A i, j \in 1..Cardinality(U) : s[i] = s[j] => i = j}

\* set(list(valid)[:k]): the cut without the sort
TopEditsUnsorted(valid, k) ==
  {ToSet(Slice(s, k)) : s \in Orders(valid)}

\* set(sorted(valid, key = freq, reverse = True)[:k]): sorted() runs over the
\* set in hash order, so ties at the cut fall either way
TopEdits(valid, k) ==
  {ToSet(Slice(SortDesc(s), k)) : s \in Orders(valid)}

\* autocorrect for a str prefix: the set of [exc, ret] it can end with
autocorrect(t, prefix, max_count) ==
  LET first == autocomplete(t, prefix, max_count)
  IN IF first.exc # "none"
     THEN {[exc |-> first.exc, ret |-> <<>>]}
     ELSE IF max_count # None /\ Len(first.ret) = max_count[1]
     THEN {[exc |-> "none", ret |-> first.ret]}
     ELSE LET completions == ToSet(find_completes_prefix(t, prefix, max_count).ret)
              valid == valid_edits(t, prefix, completions)
              chosen == IF max_count # None
                        THEN TopEdits(valid, max_count[1] - Cardinality(completions))
                        ELSE {valid}
          IN {[exc |-> "none", ret |-> Words(s)] :
                s \in UNION {Orders(completions \cup v) : v \in chosen}}

\* ------------------------------------------------------------ word_filter
\* the characters of a pattern
PatAtoms == KeyAtoms \cup {"*", "?"}
Patterns == UNION {[1..n -> PatAtoms] : n \in 0..MaxPatLen}

\* is_match whose `*` takes one character at least
RECURSIVE is_match_star_takes_one(_, _, _, _)
is_match_star_takes_one(word, pattern, w_index, p_index) ==
  IF w_index >= Len(word)
  THEN IF p_index >= Len(pattern)
       THEN TRUE
       ELSE ToSet(From(pattern, p_index)) = {"*"}
  ELSE IF p_index >= Len(pattern)
  THEN FALSE
  ELSE IF pattern[p_index + 1] # "*"
  THEN LET w == word[w_index + 1]
           p == pattern[p_index + 1]
       IN (p = "?" \/ p = w)
            /\ is_match_star_takes_one(word, pattern, w_index + 1, p_index + 1)
  ELSE is_match_star_takes_one(word, pattern, w_index + 1, p_index)

\* word_filter.is_match, w_index and p_index counted from 0 as in the code
RECURSIVE is_match(_, _, _, _)
is_match(word, pattern, w_index, p_index) ==
  IF w_index >= Len(word)
  THEN IF p_index >= Len(pattern)
       THEN TRUE
       ELSE ToSet(From(pattern, p_index)) = {"*"}
  ELSE IF p_index >= Len(pattern)
  THEN FALSE
  ELSE IF pattern[p_index + 1] # "*"
  THEN LET w == word[w_index + 1]
           p == pattern[p_index + 1]
       IN (p = "?" \/ p = w) /\ is_match(word, pattern, w_index + 1, p_index + 1)
  ELSE \/ is_match(word, pattern, w_index, p_index + 1)
       \/ is_match(word, pattern, w_index + 1, p_index)

\* the list comprehension of word_filter over the pairs `items` of the trie
RECURSIVE Matching(_, _)
Matching(items, pattern) ==
  IF items = <<>> THEN <<>>
  ELSE (IF is_match(Head(items).key.atoms, pattern, 0, 0)
        THEN <<Head(items)>> ELSE <<>>)
         \o Matching(Tail(items), pattern)

\* word_filter: the list of (word, freq) pairs
word_filter(t, pattern) == Matching(Iter(t), pattern)

\* ------------------------------------------------------------ the builders
\* what `tokenize_sentences(text)` and `sentence.split()` hand to the loops:
\* a text is a list of sentences, a sentence a list of words, a word a
\* non-empty list of characters
BuildWords == {<<"a">>, <<"b">>, <<"a", "b">>}
Sentences == UNION {[1..n -> BuildWords] : n \in 0..MaxWords}
Texts == UNION {[1..n -> Sentences] : n \in 0..MaxSentences}

\* the words of the sentences of a text, in the order the two loops of
\* make_word_trie meet them
RECURSIVE Flatten(_)
Flatten(text) == IF text = <<>> THEN <<>> ELSE Head(text) \o Flatten(Tail(text))

\* a loop body that stores 1 at every occurrence
make_word_trie_body_no_count(t, word) ==
  LET key == [kind |-> "str", atoms |-> word]
  IN [exc |-> IF SetItemRaises(t, key) THEN "TypeError" ELSE "none",
      trie |-> SetItem(t, key, <<1>>)]

\* the body of the inner loop of make_word_trie: [exc, trie]
make_word_trie_body(t, word) ==
  LET key == [kind |-> "str", atoms |-> word]
  IN IF ~Contains(t, key)
     THEN [exc |-> IF SetItemRaises(t, key) THEN "TypeError" ELSE "none",
           trie |-> SetItem(t, key, <<1>>)]
     ELSE LET g == GetItem(t, key)
          IN IF g.exc # "none"
             THEN [exc |-> g.exc, trie |-> t]
             ELSE [exc |-> IF SetItemRaises(t, key) THEN "TypeError" ELSE "none",
                   trie |-> SetItem(t, key, <<g.ret[1] + 1>>)]

\* the body of the loop of make_phrase_trie, sentence the list
\* `sentence.split()`: [exc, trie]
make_phrase_trie_body(t, sentence) ==
  LET key == [kind |-> "tuple", atoms |-> sentence]
  IN IF ~Contains(t, key)
     THEN [exc |-> IF SetItemRaises(t, key) THEN "TypeError" ELSE "none",
           trie |-> SetItem(t, key, <<1>>)]
     ELSE LET g == GetItem(t, key)
          IN IF g.exc # "none"
             THEN [exc |-> g.exc, trie |-> t]
             ELSE [exc |-> IF SetItemRaises(t, key) THEN "TypeError" ELSE "none",
                   trie |-> SetItem(t, key, <<g.ret[1] + 1>>)]

\* the items the loop of a builder runs over
Items(b) == IF b.kind = "word" THEN Flatten(b.text) ELSE b.text

\* ------------------------------------------------------------- the state
VARIABLES trie, last, ref, inserted, created, deleted, build
vars == <<trie, last, ref, inserted, created, deleted, build>>
\* what a step of the container alone leaves as it is: the history variables
\* and the position of the builders
hist == <<ref, inserted, created, deleted, build>>

Op(op, key, value, n, exc, ret) ==
  [op |-> op, key |-> key, value |-> value, n |-> n, exc |-> exc, ret |-> ret]

NoKey == [kind |-> "none", atoms |-> <<>>]
\* no builder is running
NoBuild == [kind |-> "none", text |-> <<>>, pos |-> 0]
Counts == {None} \cup {<<n>> : n \in 0..MaxCount}

Init ==
  /\ trie = NewTrie(NoType)
  /\ last = Op("init", NoKey, None, None, "none", None)
  /\ ref = {}
  /\ inserted = {}
  /\ created = <<>>
  /\ deleted = {}
  /\ build = NoBuild

\* t[key] = value
Set ==
  \E key \in AnyKeys, value \in Values :
    LET t2 == SetItem(trie, key, value)
    IN /\ NodeCount(t2) <= MaxNodes
       /\ trie' = t2
       /\ last' = Op("set", key, value, None,
                     IF SetItemRaises(trie, key) THEN "TypeError" ELSE "none", None)

\* del t[key]
Delete ==
  \E key \in AnyKeys :
    LET d == DelItem(trie, key)
    IN /\ trie' = d.trie
       /\ last' = Op("delete", key, None, None, d.exc, None)

\* t[key]
Get ==
  \E key \in AnyKeys :
    LET g == GetItem(trie, key)
    IN /\ last' = Op("get", key, None, None, g.exc, g.ret)
       /\ UNCHANGED trie

\* key in t
ContainsOp ==
  \E key \in AnyKeys :
    /\ last' = Op("contains", key, None, None, "none", <<Contains(trie, key)>>)
    /\ UNCHANGED trie

\* list(t)
Iterate ==
  /\ last' = Op("iterate", NoKey, None, None, "none", Iter(trie))
  /\ UNCHANGED trie

\* autocomplete(t, prefix, max_count)
AutocompleteOp ==
  \E prefix \in Keys, n \in Counts :
    LET r == autocomplete(trie, prefix, n)
    IN /\ last' = Op("autocomplete", prefix, None, n, r.exc, r.ret)
       /\ UNCHANGED trie

\* autocorrect(t, prefix, max_count)
AutocorrectOp ==
  \E prefix \in StrKeys, n \in Counts :
    \E r \in autocorrect(trie, prefix, n) :
      /\ last' = Op("autocorrect", prefix, None, n, r.exc, r.ret)
      /\ UNCHANGED trie

\* word_filter(t, pattern)
WordFilterOp ==
  \E pattern \in Patterns :
    /\ last' = Op("word_filter", [kind |-> "str", atoms |-> pattern], None, None,
                  "none", word_filter(trie, pattern))
    /\ UNCHANGED trie

\* make_word_trie(text), from `t = Trie()` on
InitB ==
  /\ trie = NewTrie(NoType)
  /\ last = Op("init", NoKey, None, None, "none", None)
  /\ ref = {}
  /\ inserted = {}
  /\ created = <<>>
  /\ deleted = {}
  /\ build \in {[kind |-> k, text |-> x, pos |-> 0] :
                  k \in {"word", "phrase"}, x \in Texts}

\* one turn of the inner loop of make_word_trie
MakeWordTrieStep ==
  /\ build.kind = "word"
  /\ last.exc = "none"
  /\ build.pos < Len(Items(build))
  /\ LET word == Items(build)[build.pos + 1]
         r == make_word_trie_body(trie, word)
     IN /\ trie' = r.trie
        /\ last' = Op("make_word_trie", [kind |-> "str", atoms |-> word],
                      None, None, r.exc, None)
  /\ build' = [build EXCEPT !.pos = @ + 1]

\* one turn of the loop of make_phrase_trie
MakePhraseTrieStep ==
  /\ build.kind = "phrase"
  /\ last.exc = "none"
  /\ build.pos < Len(Items(build))
  /\ LET sentence == Items(build)[build.pos + 1]
         r == make_phrase_trie_body(trie, sentence)
     IN /\ trie' = r.trie
        /\ last' = Op("make_phrase_trie", [kind |-> "tuple", atoms |-> sentence],
                      None, None, r.exc, None)
  /\ build' = [build EXCEPT !.pos = @ + 1]

\* the two builders
NextB ==
  \/ MakeWordTrieStep /\ UNCHANGED <<ref, inserted, created, deleted>>
  \/ MakePhraseTrieStep /\ UNCHANGED <<ref, inserted, created, deleted>>

SpecB == InitB /\ [][NextB]_vars

\* the container alone
Next ==
  \/ Set /\ UNCHANGED hist
  \/ Delete /\ UNCHANGED hist
  \/ Get /\ UNCHANGED hist
  \/ ContainsOp /\ UNCHANGED hist
  \/ Iterate /\ UNCHANGED hist

Spec == Init /\ [][Next]_vars

\* the container under autocomplete
NextQ ==
  \/ Set /\ UNCHANGED hist
  \/ Delete /\ UNCHANGED hist
  \/ AutocompleteOp /\ UNCHANGED hist

SpecQ == Init /\ [][NextQ]_vars

\* the container under autocorrect
NextC ==
  \/ Set /\ UNCHANGED hist
  \/ Delete /\ UNCHANGED hist
  \/ AutocorrectOp /\ UNCHANGED hist

SpecC == Init /\ [][NextC]_vars

\* the container under word_filter
NextW ==
  \/ Set /\ UNCHANGED hist
  \/ Delete /\ UNCHANGED hist
  \/ WordFilterOp /\ UNCHANGED hist

SpecW == Init /\ [][NextW]_vars

\* ------------------------------------------------------- the reference map
\* the pairs (key, latest value) of the keys set and not deleted since
RefSet(r, key, value) ==
  {p \in r : p.key # key} \cup
    (IF value = None THEN {} ELSE {[key |-> key, value |-> value]})

\* the history a step of the container leaves: the reference map, and the
\* kinds of the keys whose set succeeded
Hist ==
  /\ ref' = IF last'.exc = "none" /\ last'.op \in {"set", "delete"}
            THEN RefSet(ref, last'.key, last'.value)
            ELSE ref
  /\ inserted' = IF last'.exc = "none" /\ last'.op = "set"
                 THEN inserted \cup {last'.key.kind}
                 ELSE inserted
  /\ UNCHANGED <<created, deleted, build>>

NextH ==
  \/ Set /\ Hist
  \/ Delete /\ Hist
  \/ Iterate /\ Hist

SpecH == Init /\ [][NextH]_vars

\* ---------------------------------------------------- terms of the claims
\* every node of the trie as [atoms, value], atoms its path from the root
RECURSIVE NodesFrom(_, _)
RECURSIVE NodesItems(_, _)
NodesFrom(path, node) ==
  {[atoms |-> path, value |-> node.value]} \cup NodesItems(path, node.children)
NodesItems(path, items) ==
  IF items = <<>> THEN {}
  ELSE NodesFrom(Append(path, items[1].key.atom), items[1].trie)
         \cup NodesItems(path, Tail(items))
Nodes(t) == NodesFrom(<<>>, t)

\* key has an assigned payload: a node on its path, carrying a payload
Assigned(t, key) ==
  \E nd \in Nodes(t) : nd.atoms = key.atoms /\ nd.value # None

\* key is present: get(key) succeeds
Present(t, key) == GetItem(t, key).exc = "none"

IsPrefix(p, k) == Len(p) <= Len(k) /\ SubSeq(k, 1, Len(p)) = p

NoDuplicates(s) == \A i, j \in 1..Len(s) : s[i] = s[j] => i = j

\* the last operation returned without raising
Returned(op) == last.op = op /\ last.exc = "none"

\* ------------------------------------------------------------------- C1
\* C1 (type lock): a set whose key is a string or a tuple, made after a set
\* with a key of the other kind has succeeded, raises TypeError - also when
\* the keys set so far are all empty.
C1_TypeLock ==
  (/\ last.op = "set"
   /\ last.key \in Keys
   /\ OtherKind(last.key.kind) \in inserted)
    => last.exc = "TypeError"

\* ------------------------------------------------------------------- C2
\* C2 (iteration completeness): what iterate() yields is exactly the
\* reference map - every key set and not deleted since, once, under the key
\* that was passed to set, with its latest value.
C2_IterationComplete ==
  Returned("iterate") =>
    /\ ToSet(last.ret) = ref
    /\ NoDuplicates(last.ret)

\* ------------------------------------------------------------------- C3
\* C3 (round trip): right after a set(k, v) that succeeded, get(k) returns v
\* and contains(k) is true; a second set(k, v2) succeeds and get(k) then
\* returns v2.
C3_RoundTrip ==
  (Returned("set") /\ last.value \in Payloads) =>
    /\ GetItem(trie, last.key) = [exc |-> "none", ret |-> last.value]
    /\ Contains(trie, last.key)
    /\ \A v2 \in Payloads :
         /\ ~SetItemRaises(trie, last.key)
         /\ GetItem(SetItem(trie, last.key, v2), last.key)
              = [exc |-> "none", ret |-> v2]

\* a set of a two-atom key has just succeeded on a trie holding another key
C3_Witness ==
  /\ Returned("set")
  /\ last.value = <<MaxVal>>
  /\ Len(last.key.atoms) = 2
  /\ Cardinality({nd \in Nodes(trie) : nd.value # None}) >= 2

\* ------------------------------------------------------------------- C4
\* C4 (deletion): delete(k) succeeds on every present key k; right after it
\* contains(k) is false and get(k) raises KeyError; a following set(k, v)
\* makes k present again with get(k) = v.
C4_Deletion ==
  /\ \A k \in Keys : Present(trie, k) => DelItem(trie, k).exc = "none"
  /\ Returned("delete") =>
       /\ ~Contains(trie, last.key)
       /\ GetItem(trie, last.key).exc = "KeyError"
       /\ \A v \in Payloads :
            LET t2 == SetItem(trie, last.key, v)
            IN /\ ~SetItemRaises(trie, last.key)
               /\ Contains(t2, last.key)
               /\ GetItem(t2, last.key) = [exc |-> "none", ret |-> v]

\* a key has just been deleted from under a longer key that stays present
C4_Witness ==
  /\ Returned("delete")
  /\ \E k \in Keys :
       /\ Present(trie, k)
       /\ IsPrefix(last.key.atoms, k.atoms)
       /\ k # last.key

\* ------------------------------------------------------------------- C5
\* C5 (contains): for a string or tuple key, contains(key) is true exactly
\* when get(key) succeeds in the same state - so it is false for a key whose
\* kind is not the trie's kind.
C5_ContainsIffGet ==
  (last.op = "contains" /\ last.key \in Keys) =>
    /\ last.exc = "none"
    /\ last.ret[1] = Present(trie, last.key)

\* ------------------------------------------------------------------- C6
\* C6 (error kinds): on a trie with a locked kind, get(k) and delete(k) raise
\* TypeError when k is of the other kind, raise KeyError when k is of the
\* locked kind and has no assigned payload (no node, a junction, or deleted),
\* and otherwise succeed, get returning the payload.
ErrorKind(t, k) ==
  IF k.kind # t.type THEN "TypeError"
  ELSE IF ~Assigned(t, k) THEN "KeyError"
  ELSE "none"

C6_ErrorKinds ==
  /\ trie.type # NoType =>
       \A k \in Keys :
         /\ GetItem(trie, k).exc = ErrorKind(trie, k)
         /\ DelItem(trie, k).exc = ErrorKind(trie, k)
         /\ ErrorKind(trie, k) = "none" =>
              \E nd \in Nodes(trie) :
                nd.atoms = k.atoms /\ GetItem(trie, k).ret = nd.value
  /\ (last.op = "get" /\ last.key \in Keys /\ trie.type # NoType) =>
       last.exc = ErrorKind(trie, last.key)

\* get has just raised KeyError on a key whose node exists
C6_Witness ==
  /\ last.op = "get"
  /\ last.exc = "KeyError"
  /\ \E nd \in Nodes(trie) : nd.atoms = last.key.atoms /\ nd.value = None
  /\ \E k \in Keys : Present(trie, k) /\ k # last.key

\* every candidate edit left out of LiveEditKeys is absent from the trie
EditsSkippedAbsent ==
  \A p \in AtomSeqs : \A e \in EditKeys[p] \ LiveEditKeys[p] : ~Contains(trie, e)

\* ------------------------------------------------------------------- C7
\* autocorrect went past its first return
PastStep1(t, prefix, n) ==
  ~(n # None /\ Len(autocomplete(t, prefix, n).ret) = n[1])

\* the frequencies of the keys of s do not increase
Descending(t, s) ==
  \A i, j \in 1..Len(s) :
    i < j => GetItem(t, s[i]).ret[1] >= GetItem(t, s[j]).ret[1]

\* C7 (autocorrect ordering): past step 1, the list returned is the ranked
\* completions in autocomplete's order, then the valid edits by descending
\* frequency.
C7_CompletionsFirst ==
  (Returned("autocorrect") /\ PastStep1(trie, last.key, last.n)) =>
    LET completions == autocomplete(trie, last.key, last.n).ret
        c == Len(completions)
    IN /\ Len(last.ret) >= c
       /\ SubSeq(last.ret, 1, c) = completions
       /\ Descending(trie, SubSeq(last.ret, c + 1, Len(last.ret)))

\* ------------------------------------------------------------------- C8
\* C8 (autocorrect determinism): every execution of autocorrect on the same
\* trie, prefix and maxCount returns the list this one returned.
C8_Deterministic ==
  last.op = "autocorrect" =>
    \A r \in autocorrect(trie, last.key, last.n) : r.ret = last.ret

\* ------------------------------------------------------------------- C9
\* e is p after one insertion, deletion, substitution (of a letter) or swap of
\* two adjacent characters
Without(s, i) == SubSeq(s, 1, i - 1) \o SubSeq(s, i + 1, Len(s))
OneEdit(p, e) ==
  \/ Len(e) = Len(p) + 1 /\ \E i \in 1..Len(e) : e[i] \in Alphabet /\ Without(e, i) = p
  \/ Len(e) = Len(p) - 1 /\ \E i \in 1..Len(p) : Without(p, i) = e
  \/ Len(e) = Len(p) /\
       \E i \in 1..Len(p) :
         e[i] \in Alphabet /\ \A j \in 1..Len(p) : j # i => e[j] = p[j]
  \/ Len(e) = Len(p) /\
       \E i \in 1..(Len(p) - 1) :
         /\ e[i] = p[i + 1] /\ e[i + 1] = p[i]
         /\ \A j \in 1..Len(p) : (j # i /\ j # i + 1) => e[j] = p[j]

CompletionsOf(t, p) ==
  {k \in StrKeys : Present(t, k) /\ IsPrefix(p.atoms, k.atoms)}
ValidEditsOf(t, p) ==
  {e \in StrKeys :
     /\ e # p
     /\ OneEdit(p.atoms, e.atoms)
     /\ Present(t, e)
     /\ e \notin CompletionsOf(t, p)}
Min(a, b) == IF a < b THEN a ELSE b

\* C9 (autocorrect content and bound): on a string-keyed trie, autocorrect
\* returns, each once, completions of the prefix and valid edits; all of both
\* when maxCount is omitted; with maxCount n, min(n, all) keys, the
\* completions before any edit, and no edit left out that is more frequent
\* than one returned.
C9_ContentAndBound ==
  (last.op = "autocorrect" /\ trie.type = "str") =>
    LET R == ToSet(last.ret)
        C == CompletionsOf(trie, last.key)
        V == ValidEditsOf(trie, last.key)
    IN /\ last.exc = "none"
       /\ NoDuplicates(last.ret)
       /\ R \subseteq C \cup V
       /\ last.n = None => R = C \cup V
       /\ last.n # None =>
            /\ Len(last.ret) = Min(last.n[1], Cardinality(C \cup V))
            /\ (R \cap V # {}) => C \subseteq R
            /\ \A e \in R \cap V, x \in V \ R :
                 GetItem(trie, e).ret[1] >= GetItem(trie, x).ret[1]

\* autocorrect has just filled one place from two valid edits of unequal
\* frequency, next to one completion
C9_Witness ==
  /\ Returned("autocorrect")
  /\ last.n = <<2>>
  /\ Cardinality(CompletionsOf(trie, last.key)) = 1
  /\ \E e, x \in ValidEditsOf(trie, last.key) :
       GetItem(trie, e).ret[1] > GetItem(trie, x).ret[1]
  /\ Len(last.ret) = 2

\* ------------------------------------------------------------------ C10
\* C10 (autocomplete bound and completeness): for a prefix of the trie's
\* kind, autocomplete returns at most n keys when n is given, and without n
\* exactly the present keys that start with the prefix, each once.
C10_BoundAndComplete ==
  (last.op = "autocomplete" /\ trie.type # NoType /\ last.key.kind = trie.type) =>
    /\ last.exc = "none"
    /\ last.n # None => Len(last.ret) <= last.n[1]
    /\ last.n = None =>
         /\ NoDuplicates(last.ret)
         /\ ToSet(last.ret) =
              {k \in Keys : /\ k.kind = trie.type
                            /\ Present(trie, k)
                            /\ IsPrefix(last.key.atoms, k.atoms)}

\* autocomplete without n has just returned a present prefix and a longer key,
\* on a trie that also holds a junction or a deleted key
C10_Witness ==
  /\ Returned("autocomplete")
  /\ last.n = None
  /\ Len(last.ret) >= 2
  /\ last.key \in ToSet(last.ret)
  /\ \E nd \in Nodes(trie) : nd.value = None

\* ------------------------------------------------------------------ C11
\* position of the key k in the enumeration of t (0 when it is not yielded)
EnumPos(t, k) ==
  LET en == Words(Iter(t))
  IN IF \E i \in 1..Len(en) : en[i] = k
     THEN CHOOSE i \in 1..Len(en) : en[i] = k
     ELSE 0

\* k1 ranks before k2: more frequent, or as frequent and enumerated earlier
RanksBefore(t, k1, k2) ==
  LET f1 == GetItem(t, k1).ret[1]
      f2 == GetItem(t, k2).ret[1]
  IN f1 > f2 \/ (f1 = f2 /\ EnumPos(t, k1) < EnumPos(t, k2))

\* the present keys of t's kind that start with prefix p
Completions(t, p) ==
  {k \in Keys : k.kind = t.type /\ Present(t, k) /\ IsPrefix(p.atoms, k.atoms)}

\* C11 (autocomplete ranking): the keys autocomplete returns are in
\* non-increasing order of frequency, keys of equal frequency in the order of
\* the trie's enumeration; with max_count n they are the first n of the
\* ranking of all the completions.
C11_Ranking ==
  Returned("autocomplete") =>
    LET C == Completions(trie, last.key)
        R == ToSet(last.ret)
    IN /\ R \subseteq C
       /\ NoDuplicates(last.ret)
       /\ \A i, j \in 1..Len(last.ret) :
            i < j => RanksBefore(trie, last.ret[i], last.ret[j])
       /\ last.n = None => R = C
       /\ last.n # None =>
            /\ Len(last.ret) = Min(last.n[1], Cardinality(C))
            /\ \A r \in R, k \in C \ R : RanksBefore(trie, r, k)

\* autocomplete has just cut three completions to two, the first of them
\* enumerated after the second, and the one cut off as frequent as the second
C11_Witness ==
  /\ Returned("autocomplete")
  /\ last.n = <<2>>
  /\ Len(last.ret) = 2
  /\ EnumPos(trie, last.ret[1]) > EnumPos(trie, last.ret[2])
  /\ \E k \in Completions(trie, last.key) \ ToSet(last.ret) :
       GetItem(trie, k).ret = GetItem(trie, last.ret[2]).ret

\* ------------------------------------------------------------------ C12
\* the word w matches the pattern p as a glob: w can be cut into one piece for
\* each character of p - any piece for `*`, one character for `?`, the
\* character itself for any other
Glob(w, p) ==
  \E cut \in [0..Len(p) -> 0..Len(w)] :
    /\ cut[0] = 0
    /\ cut[Len(p)] = Len(w)
    /\ \A i \in 1..Len(p) :
         /\ cut[i - 1] <= cut[i]
         /\ \/ p[i] = "*"
            \/ /\ cut[i] = cut[i - 1] + 1
               /\ p[i] = "?" \/ p[i] = w[cut[i]]

\* C12 (wildcard correctness): on a string-keyed trie, word_filter returns
\* the pairs of iterate() whose key matches the pattern as a glob, in the
\* order of iterate().
C12_Wildcard ==
  (last.op = "word_filter" /\ trie.type = "str") =>
    LET GlobPair(pair) == Glob(pair.key.atoms, last.key.atoms)
    IN /\ last.exc = "none"
       /\ last.ret = SelectSeq(Iter(trie), GlobPair)

\* word_filter, under a pattern that starts with `*` and goes on, has just
\* returned two of three pairs, the less frequent one first
C12_Witness ==
  /\ Returned("word_filter")
  /\ trie.type = "str"
  /\ Len(last.key.atoms) >= 2
  /\ last.key.atoms[1] = "*"
  /\ Len(Iter(trie)) = 3
  /\ Len(last.ret) = 2
  /\ Freq(last.ret[1]) < Freq(last.ret[2])

\* ------------------------------------------------------------------ C13
\* the prefix p is of a kind other than the kind t is locked to
KindMismatch(t, p) == t.type # NoType /\ p.kind # t.type

\* C13 (graceful empty results): autocomplete raises nothing but TypeError,
\* and that only for a prefix of a kind other than the trie's locked kind; on
\* a trie without a locked kind, and for a prefix no present key starts with,
\* it returns the empty list.
C13_GracefulEmpty ==
  last.op = "autocomplete" =>
    /\ last.exc \in {"none", "TypeError"}
    /\ last.exc = "TypeError" <=> KindMismatch(trie, last.key)
    /\ (~KindMismatch(trie, last.key) /\ Completions(trie, last.key) = {}) =>
         last.ret = <<>>

\* ------------------------------------------------------------------ C14
\* the atom paths that have a node in t
NodePaths(t) == {nd.atoms : nd \in Nodes(t)}

\* the paths of P, a chain of prefixes, from the shortest to the longest
ByLength(P) ==
  CHOOSE s \in [1..Cardinality(P) -> P] :
    \A i, j \in 1..Cardinality(P) : i < j => Len(s[i]) < Len(s[j])

\* the history a step of the container leaves for the order of enumeration:
\* the paths in the order their nodes were made, and the key deleted last
HistO ==
  /\ created' = created \o ByLength(NodePaths(trie') \ NodePaths(trie))
  /\ deleted' = IF last'.exc = "none" /\ last'.op = "delete"
                THEN {last'.key}
                ELSE deleted
  /\ UNCHANGED <<ref, inserted, build>>

NextO ==
  \/ Set /\ HistO
  \/ Delete /\ HistO
  \/ Iterate /\ HistO

SpecO == Init /\ [][NextO]_vars

\* when the node at path p was first made (0: never)
CreatedPos(p) ==
  IF \E i \in 1..Len(created) : created[i] = p
  THEN CHOOSE i \in 1..Len(created) :
         created[i] = p /\ \A j \in 1..(i - 1) : created[j] # p
  ELSE 0

\* length of the longest common prefix of a and b
RECURSIVE Common(_, _)
Common(a, b) ==
  IF a = <<>> \/ b = <<>> \/ Head(a) # Head(b) THEN 0
  ELSE 1 + Common(Tail(a), Tail(b))

\* a comes before b in pre-order with children in the order of their making:
\* a is a proper prefix of b, or where the two part a's branch was made first
PreOrderBefore(a, b) ==
  LET m == Common(a, b)
  IN \/ m = Len(a) /\ m < Len(b)
     \/ /\ m < Len(a)
        /\ m < Len(b)
        /\ CreatedPos(Upto(a, m + 1)) > 0
        /\ CreatedPos(Upto(a, m + 1)) < CreatedPos(Upto(b, m + 1))

\* C14 (enumeration order): iterate() yields the present keys in pre-order,
\* the children of a node in the order they were first inserted - whatever was
\* deleted and set again since.
C14_EnumerationOrder ==
  Returned("iterate") =>
    \A i, j \in 1..Len(last.ret) :
      i < j => PreOrderBefore(last.ret[i].key.atoms, last.ret[j].key.atoms)

\* iterate() has just yielded a key that was deleted and set again, before a
\* key on another branch that sorts before it
C14_Witness ==
  /\ Returned("iterate")
  /\ Len(last.ret) = 2
  /\ last.ret[1].key \in deleted
  /\ last.ret[1].key.atoms = <<"b">>
  /\ last.ret[2].key.atoms = <<"a">>

\* ------------------------------------------------------------------ C15
\* the atom paths from the root down to the end of key
PathTo(key) == {Upto(key.atoms, i) : i \in 0..Len(key.atoms)}

\* every node of t but the one at the end of key, with its payload
NodesOffKey(t, key) == {nd \in Nodes(t) : nd.atoms # key.atoms}

\* C15 (nodes are never pruned): a step of set/get/delete/contains/iterate
\* takes no node away; a delete that succeeds leaves every node, resets the
\* payload of the node of its key and changes no other payload; a set that
\* succeeds adds the nodes missing on the path of its key and no other.
C15_NeverPruned ==
  [][/\ NodePaths(trie) \subseteq NodePaths(trie')
     /\ (last'.op = "delete" /\ last'.exc = "none") =>
          /\ NodePaths(trie') = NodePaths(trie)
          /\ NodesOffKey(trie', last'.key) = NodesOffKey(trie, last'.key)
          /\ [atoms |-> last'.key.atoms, value |-> None] \in Nodes(trie')
     /\ (last'.op = "set" /\ last'.exc = "none") =>
          NodePaths(trie') = NodePaths(trie) \cup PathTo(last'.key)]_vars

\* a key has just been deleted whose node lies between the root and the node
\* of a longer key
C15_Witness ==
  /\ Returned("delete")
  /\ Len(last.key.atoms) = 1
  /\ \E nd \in Nodes(trie) :
       /\ Len(nd.atoms) = 2
       /\ IsPrefix(last.key.atoms, nd.atoms)
       /\ nd.value # None

\* ------------------------------------------------------------------ C16
\* the keys iterate() yields on t
Yielded(t) == ToSet(Words(Iter(t)))

\* t1 and t2 answer every contains, get and iterate alike
SameObservable(t1, t2) ==
  /\ Iter(t1) = Iter(t2)
  /\ \A k \in AnyKeys :
       /\ Contains(t1, k) = Contains(t2, k)
       /\ GetItem(t1, k) = GetItem(t2, k)

\* C16 (setting the absence marker is deletion): for every key k of the
\* locked kind, set(k, None) succeeds whether k is present or not; afterwards
\* contains(k) is false, get(k) raises KeyError and iterate() does not yield
\* k; on a present k it leaves what delete(k) leaves.
C16_SetNoneDeletes ==
  /\ \A k \in Keys :
       (trie.type # NoType /\ k.kind = trie.type) =>
         LET t2 == SetItem(trie, k, None)
         IN /\ ~SetItemRaises(trie, k)
            /\ ~Contains(t2, k)
            /\ GetItem(t2, k).exc = "KeyError"
            /\ k \notin Yielded(t2)
            /\ Present(trie, k) =>
                 /\ DelItem(trie, k).exc = "none"
                 /\ SameObservable(t2, DelItem(trie, k).trie)
  /\ (Returned("set") /\ last.value = None) =>
       /\ ~Contains(trie, last.key)
       /\ GetItem(trie, last.key).exc = "KeyError"
       /\ last.key \notin Yielded(trie)

\* set(k, None) has just returned on a trie that holds a present key, a node
\* for k, and no node for another key of its kind
C16_Witness ==
  /\ Returned("set")
  /\ last.value = None
  /\ last.key.atoms \in NodePaths(trie)
  /\ Yielded(trie) # {}
  /\ \E k \in Keys : k.kind = trie.type /\ k.atoms \notin NodePaths(trie)

\* ------------------------------------------------------------------ C17
\* how many of the items are x
Occurrences(x, items) == Cardinality({i \in 1..Len(items) : items[i] = x})

\* C17 (builder counts): when a builder has gone through its text, without
\* raising, the present keys of its trie are the distinct words (str keys),
\* or the distinct tuples of words of the sentences (tuple keys), and get
\* returns how often each occurs.
C17_BuilderCounts ==
  (build.kind \in {"word", "phrase"} /\ build.pos = Len(Items(build))) =>
    LET kind == IF build.kind = "word" THEN "str" ELSE "tuple"
        items == Items(build)
        KeyOf(x) == [kind |-> kind, atoms |-> x]
    IN /\ last.exc = "none"
       /\ items # <<>> => trie.type = kind
       /\ NoDuplicates(Words(Iter(trie)))
       /\ Yielded(trie) = {KeyOf(x) : x \in ToSet(items)}
       /\ \A x \in ToSet(items) :
            GetItem(trie, KeyOf(x)) =
              [exc |-> "none", ret |-> <<Occurrences(x, items)>>]

\* make_word_trie has gone through a text where a word comes once in each of
\* two sentences, next to a word that it extends
C17_Witness ==
  /\ build.kind = "word"
  /\ build.pos = Len(Items(build))
  /\ Len(build.text) = 2
  /\ \E i \in 1..Len(build.text[1]) : build.text[1][i] = <<"a", "b">>
  /\ \E i \in 1..Len(build.text[2]) : build.text[2][i] = <<"a", "b">>
  /\ \E i \in 1..Len(build.text[2]) : build.text[2][i] = <<"a">>

\* ------------------------------------------------------------------ C18
\* every key but k answers contains and get in t2 as it does in t1
SameElsewhere(t1, t2, k) ==
  \A k2 \in Keys \ {k} :
    /\ Contains(t2, k2) = Contains(t1, k2)
    /\ GetItem(t2, k2) = GetItem(t1, k2)

\* C18 (frame of writes): a set(k, v) or delete(k) that succeeds on a trie
\* with a locked kind leaves that kind as it is, and leaves contains(k2) and
\* get(k2) as they are for every key k2 other than k.
C18_FrameOfWrites ==
  [][(/\ last'.op \in {"set", "delete"}
      /\ last'.exc = "none"
      /\ trie.type # NoType) =>
       /\ trie'.type = trie.type
       /\ SameElsewhere(trie, trie', last'.key)]_vars

\* ------------------------------------------------------------------ C19
Reads == {"get", "contains", "iterate", "autocomplete", "autocorrect", "word_filter"}

\* C19 (no effect on failure or on reads): a set, get or delete that raises,
\* and every contains, iterate, autocomplete, autocorrect and word_filter,
\* leaves the trie - nodes, payloads and kind - as it was.
C19_NoEffect ==
  [][(last'.exc # "none" \/ last'.op \in Reads) => trie' = trie]_vars

\* a set has just raised TypeError on a trie that has nodes under its root
C19_Witness ==
  /\ last.op = "set"
  /\ last.exc = "TypeError"
  /\ last.key \in Keys
  /\ NodeCount(trie) >= 1

====
